---- MODULE Spec2Model ----
(***************************************************************************)
(* Model of the training driver (train.py), the checkpoint utilities       *)
(* (utils.py) and the bipartite convolution (model.py).                    *)
(*                                                                         *)
(* Spec     : a sequence of train.py processes run one after another over  *)
(*            one log directory; each may be terminated at any step.       *)
(* SpecGCN  : BipartiteLightGCN.forward applied to bounded inputs.         *)
(* SpecStep : the minibatch loop of train_step, with and without a         *)
(*            gradient scaler.                                             *)
(***************************************************************************)
EXTENDS Integers, Sequences, FiniteSets, TLC

\* ------------------------------------------------------------- bounds
MaxRuns == 2          \* processes launched one after another
MaxEpochs == 2        \* largest train.epochs of a configuration
MaxN == 2             \* largest node count of X and of Y
MaxEdges == 2         \* largest number of edges of an edge_index
MaxFeat == 2          \* node features are drawn from 1..MaxFeat
MaxScaleExp == 17     \* the loss scale does not grow beyond 2^MaxScaleExp
MaxBelowOne == 1      \* the loss scale does not shrink below 2^-MaxBelowOne

VARIABLES
  \* --- the file system
  files,          \* configuration files: path -> parsed configuration
  fs,             \* <logdir>: sequence of run directories, fs[n+1] is train_<n>
  \* --- the running (or last) train.py process
  nproc,          \* number of processes launched so far
  pc,             \* position of the process in train()
  err,            \* the exception that ended the process, if any
  args,           \* argparse namespace: config, checkpoint, resume
  ckpt,           \* init_from_checkpoint: the record utils.load_checkpoint returned
  config, model, optimizer, scheduler, scaler,
  writer,         \* writer.log_dir, as an index into fs (0: no writer)
  epoch, start_epoch, end_epoch,
  train_losses, val_losses,
  train_loss, val_loss, best_val_loss,
  \* --- history (not program state)
  createCalls,    \* calls of create_optimizer_scheduler_scaler by this process
  stepLog,        \* the steps this process has taken in the current epoch
  ownVal,         \* validation losses of the epochs this process has evaluated
  completed,      \* per run directory: epoch indices whose last.pt was written
  wroteLast,      \* this process has completed a write of last.pt
  prev,           \* how the previous process ended (and, if killed, where)
  \* --- BipartiteLightGCN.forward
  gx, gy,         \* node features of X and Y (1-dimensional)
  edge_index,     \* the two rows <<from_, to_>> of the edge index
  fwd,            \* result of forward(x, y, edge_index)
  fwdSwap,        \* result of forward(y, x, edge_index.flip(0))
  \* --- train_step
  tpc,            \* position in the minibatch loop of train_step
  useScaler,      \* scaler is not None
  scaleExp,       \* GradScaler: the scale is 2^scaleExp
  growthTracker,  \* GradScaler: consecutive steps without inf/NaN
  grad,           \* norm of the .grad of the parameters
  \* --- history of the current minibatch (not program state)
  trueGrad,       \* norm of the gradient of the unscaled loss
  applied,        \* norm of the gradient the last optimizer.step() applied
  batchLog        \* the operations done for the current minibatch

trainVars == <<files, fs, nproc, pc, err, args, ckpt, config, model, optimizer,
               scheduler, scaler, writer, epoch, start_epoch, end_epoch,
               train_losses, val_losses, train_loss, val_loss, best_val_loss,
               createCalls, stepLog, ownVal, completed, wroteLast, prev>>
gcnVars == <<gx, gy, edge_index, fwd, fwdSwap>>
stepVars == <<tpc, useScaler, scaleExp, growthTracker, grad, trueGrad, applied,
              batchLog>>
vars == <<trainVars, gcnVars, stepVars>>

\* ------------------------------------------------------------- values
None == [kind |-> "None"]                 \* Python None
NoFile == [kind |-> "absent"]             \* the path does not exist
Partial == [kind |-> "partial"]           \* a file opened for writing, not yet complete
\* Validation losses: the driver only compares them, so two levels (a lower
\* and a higher one) give every outcome of the comparison; float("inf") is
\* above both
LossVals == {1, 2}
Inf == 3
ConfigPaths == {"config.yaml", "other.yaml"}
Configs == [epochs : 1..MaxEpochs, hasScheduler : BOOLEAN, amp : BOOLEAN]
\* The file other.yaml: a configuration with one more epoch than config.yaml
OtherConfig(c) == [c EXCEPT !.epochs = IF @ < MaxEpochs THEN @ + 1 ELSE 1]

IsCkpt(f) == f.kind = "ckpt"
Running == pc \notin {"idle", "done", "error", "killed"}

\* utils.load_config: the parsed content of the file at path
load_config(path) == files[path]

\* utils.create_optimizer_scheduler_scaler, called by process p
create_optimizer_scheduler_scaler(cfg, p) ==
  [optimizer |-> [kind |-> "optimizer", gen |-> p, steps |-> 0],
   scheduler |-> IF cfg.hasScheduler
                 THEN [kind |-> "scheduler", gen |-> p, steps |-> 0]
                 ELSE None,
   scaler    |-> IF cfg.amp THEN [kind |-> "scaler", gen |-> p] ELSE None]

\* utils.save_checkpoint: the record handed to torch.save
checkpoint_record ==
  [kind |-> "ckpt", model |-> model, optimizer |-> optimizer,
   scheduler |-> scheduler, scaler |-> scaler, epoch |-> epoch,
   end_epoch |-> end_epoch, train_loss |-> train_loss, val_loss |-> val_loss,
   config |-> config, log_dir |-> writer,
   train_losses |-> train_losses, val_losses |-> val_losses]

\* train.init: the configuration path init reads
init_config_path(config_dir) == "config.yaml"

\* (variant: the resumed run repeats the checkpoint's epoch)
resume_start_epoch_repeat(resume, ep) == IF resume THEN ep ELSE 0

\* train(): start_epoch after the resume test
resume_start_epoch(resume, ep) == IF resume THEN ep + 1 ELSE 0

\* (variant: a tie counts as an improvement)
improves_or_ties(vl, best) == vl <= best

\* train(): the best-checkpoint test
improves(vl, best) == vl < best

\* ------------------------------------------------------------- train(): set-up
EmptyDir == [last |-> NoFile, best |-> NoFile]

\* The checkpoint files that exist (complete or not)
CheckpointPaths ==
  {p \in [kind : {"path"}, dir : 1..Len(fs), file : {"last", "best"}] :
     fs[p.dir][p.file] # NoFile}

\* --config is read on the path without a checkpoint only; with a checkpoint
\* it keeps the parser's default
ArgSets ==
  [config : {"None"} \cup ConfigPaths, checkpoint : {None}, resume : BOOLEAN]
    \cup
  [config : {"config.yaml"}, checkpoint : CheckpointPaths, resume : BOOLEAN]

\* train(): the locals as lines 117-128 set them
Locals0 ==
  [config |-> None, model |-> None, optimizer |-> None, scheduler |-> None,
   scaler |-> None, writer |-> 0, epoch |-> 0, start_epoch |-> 0,
   end_epoch |-> 0, train_losses |-> <<>>, val_losses |-> <<>>,
   ckpt |-> None, created |-> 0, newdir |-> FALSE, err |-> "none"]

\* train.init(config_dir), run by process p: a new model, optimizer, scheduler,
\* scaler and a writer on the new directory train_<len(listdir(logdir))>
init(config_dir, p) ==
  LET cfg == load_config(init_config_path(config_dir))
      cr  == create_optimizer_scheduler_scaler(cfg, p)
  IN  [Locals0 EXCEPT
         !.config = cfg,
         !.model = [kind |-> "model", gen |-> p, trained |-> 0],
         !.optimizer = cr.optimizer, !.scheduler = cr.scheduler,
         !.scaler = cr.scaler,
         !.writer = Len(fs) + 1, !.newdir = TRUE,
         !.end_epoch = cfg.epochs,
         !.created = 1]

\* train.init_from_checkpoint(checkpoint), ck the record torch.load returned
init_from_checkpoint(ck) ==
  [Locals0 EXCEPT
     !.ckpt = ck,
     !.config = ck.config, !.model = ck.model, !.optimizer = ck.optimizer,
     !.scheduler = ck.scheduler, !.scaler = ck.scaler,
     !.writer = ck.log_dir,
     !.epoch = ck.epoch, !.end_epoch = ck.end_epoch,
     !.train_losses = ck.train_losses, !.val_losses = ck.val_losses]

\* (variant: the stored optimizer, scheduler and scaler are kept)
reinit_keeping_optimizer(l, p) ==
  [l EXCEPT
     !.writer = Len(fs) + 1, !.newdir = TRUE,
     !.epoch = 0, !.end_epoch = l.config.epochs,
     !.train_losses = <<>>, !.val_losses = <<>>]

\* train(), lines 145-153: a checkpoint given without resume
reinit_from_checkpoint(l, p) ==
  LET cr == create_optimizer_scheduler_scaler(l.config, p)
  IN  [l EXCEPT
         !.optimizer = cr.optimizer, !.scheduler = cr.scheduler,
         !.scaler = cr.scaler,
         !.writer = Len(fs) + 1, !.newdir = TRUE,
         !.epoch = 0, !.end_epoch = l.config.epochs,
         !.train_losses = <<>>, !.val_losses = <<>>,
         !.created = l.created + 1]

\* (variant: the missing checkpoint is not reported)
resume_check_silent(a, l) ==
  [l EXCEPT !.start_epoch = resume_start_epoch(a.resume, l.epoch)]

\* train(), lines 157-161: the resume test
resume_check(a, l) ==
  IF a.resume
  THEN IF a.checkpoint = None
       THEN [l EXCEPT !.err = "ValueError"]
       ELSE [l EXCEPT !.start_epoch = resume_start_epoch(TRUE, l.epoch)]
  ELSE [l EXCEPT !.start_epoch = resume_start_epoch(FALSE, l.epoch)]

\* train(), lines 117-161, run by process p with arguments a
train_setup(a, p) ==
  IF a.checkpoint # None
  THEN LET f == fs[a.checkpoint.dir][a.checkpoint.file]
       IN  IF ~IsCkpt(f)
           THEN [Locals0 EXCEPT !.err = "LoadError"]   \* torch.load raises
           ELSE IF a.resume = FALSE
                THEN resume_check(a, reinit_from_checkpoint(init_from_checkpoint(f), p))
                ELSE resume_check(a, init_from_checkpoint(f))
  ELSE resume_check(a, init(a.config, p))

\* A train.py process is started once the previous one has ended
Launch ==
  /\ ~Running
  /\ nproc < MaxRuns
  /\ \E a \in ArgSets :
       LET p == nproc + 1
           l == train_setup(a, p)
           loops == l.err = "none" /\ l.start_epoch < l.end_epoch
       IN  /\ nproc' = p
           /\ args' = a
           /\ prev' = IF pc = "killed"
                      THEN [exit |-> pc, dir |-> writer, wrote |-> wroteLast]
                      ELSE [exit |-> pc, dir |-> 0, wrote |-> FALSE]
           /\ ckpt' = l.ckpt
           /\ config' = l.config
           /\ model' = l.model
           /\ optimizer' = l.optimizer
           /\ scheduler' = l.scheduler
           /\ scaler' = l.scaler
           /\ writer' = l.writer
           /\ start_epoch' = l.start_epoch
           /\ end_epoch' = l.end_epoch
           /\ epoch' = IF loops THEN l.start_epoch ELSE l.epoch
           /\ train_losses' = l.train_losses
           /\ val_losses' = l.val_losses
           /\ train_loss' = 0
           /\ val_loss' = 0
           /\ best_val_loss' = Inf
           /\ createCalls' = l.created
           /\ err' = l.err
           /\ fs' = IF l.newdir THEN Append(fs, EmptyDir) ELSE fs
           /\ completed' = IF l.newdir THEN Append(completed, <<>>) ELSE completed
           /\ pc' = IF l.err # "none" THEN "error"
                    ELSE IF loops THEN "train_step" ELSE "done"
  /\ stepLog' = <<>>
  /\ ownVal' = <<>>
  /\ wroteLast' = FALSE
  /\ UNCHANGED <<files, gcnVars, stepVars>>

\* ------------------------------------------------------------- train(): the epoch loop
\* train_step over all minibatches: the model and the optimizer advance. The
\* driver never inspects the train loss: it is written as the number of the
\* model version it was measured on.
TrainStep ==
  /\ pc = "train_step"
  /\ model' = [model EXCEPT !.trained = @ + 1]
  /\ train_loss' = model'.trained
  /\ optimizer' = [optimizer EXCEPT !.steps = @ + 1]
  /\ stepLog' = <<"train_step">>
  /\ pc' = "scheduler_step"
  /\ UNCHANGED <<files, fs, nproc, err, args, ckpt, config, scheduler, scaler,
                 writer, epoch, start_epoch, end_epoch, train_losses, val_losses,
                 val_loss, best_val_loss, createCalls, ownVal, completed,
                 wroteLast, prev, gcnVars,
                 stepVars>>

\* scheduler.step(), line 174: an attribute access on None raises
SchedulerStep ==
  /\ pc = "scheduler_step"
  /\ IF scheduler = None
     THEN /\ pc' = "error"
          /\ err' = "AttributeError"
          /\ UNCHANGED <<scheduler, stepLog>>
     ELSE /\ scheduler' = [scheduler EXCEPT !.steps = @ + 1]
          /\ stepLog' = Append(stepLog, "scheduler_step")
          /\ pc' = "train_eval"
          /\ err' = err
  /\ UNCHANGED <<files, fs, nproc, args, ckpt, config, model, optimizer, scaler,
                 writer, epoch, start_epoch, end_epoch, train_losses, val_losses,
                 train_loss, val_loss, best_val_loss, createCalls, ownVal,
                 completed, wroteLast, prev, gcnVars,
                 stepVars>>

\* train_eval on the validation split, then the two appends of lines 176-177
TrainEval ==
  /\ pc = "train_eval"
  /\ \E vl \in LossVals :
       /\ val_loss' = vl
       /\ val_losses' = Append(val_losses, vl)
       /\ ownVal' = Append(ownVal, vl)
  /\ train_losses' = Append(train_losses, train_loss)
  /\ stepLog' = Append(stepLog, "train_eval")
  /\ pc' = "save_last"
  /\ UNCHANGED <<files, fs, nproc, err, args, ckpt, config, model, optimizer,
                 scheduler, scaler, writer, epoch, start_epoch, end_epoch,
                 train_loss, best_val_loss, createCalls, completed, wroteLast,
                 prev, gcnVars,
                 stepVars>>

\* torch.save(checkpoint, path) opens path for writing: the old content is gone
torch_save_open(dirs, d, name) == [dirs EXCEPT ![d][name] = Partial]

\* torch.save(checkpoint, path) has written the whole record
torch_save_done(dirs, d, name, rec) == [dirs EXCEPT ![d][name] = rec]

\* save_checkpoint(..., last_model_path, ...): torch.save begins
SaveLastOpen ==
  /\ pc = "save_last"
  /\ fs' = torch_save_open(fs, writer, "last")
  /\ pc' = "save_last_write"
  /\ UNCHANGED <<files, nproc, err, args, ckpt, config, model, optimizer,
                 scheduler, scaler, writer, epoch, start_epoch, end_epoch,
                 train_losses, val_losses, train_loss, val_loss, best_val_loss,
                 createCalls, stepLog, ownVal, completed, wroteLast, prev, gcnVars,
                 stepVars>>

\* save_checkpoint(..., last_model_path, ...): torch.save returns
SaveLastWrite ==
  /\ pc = "save_last_write"
  /\ fs' = torch_save_done(fs, writer, "last", checkpoint_record)
  /\ completed' = [completed EXCEPT ![writer] = Append(@, epoch)]
  /\ wroteLast' = TRUE
  /\ stepLog' = Append(stepLog, "save_last")
  /\ pc' = "check_best"
  /\ UNCHANGED <<files, nproc, err, args, ckpt, config, model, optimizer,
                 scheduler, scaler, writer, epoch, start_epoch, end_epoch,
                 train_losses, val_losses, train_loss, val_loss, best_val_loss,
                 createCalls, ownVal, prev, gcnVars,
                 stepVars>>

\* line 197 true: best_val_loss is lowered and torch.save opens best.pt
SaveBestOpen ==
  /\ pc = "check_best"
  /\ improves(val_loss, best_val_loss)
  /\ best_val_loss' = val_loss
  /\ fs' = torch_save_open(fs, writer, "best")
  /\ pc' = "save_best_write"
  /\ UNCHANGED <<files, nproc, err, args, ckpt, config, model, optimizer,
                 scheduler, scaler, writer, epoch, start_epoch, end_epoch,
                 train_losses, val_losses, train_loss, val_loss, createCalls,
                 stepLog, ownVal, completed, wroteLast, prev, gcnVars,
                 stepVars>>

\* line 197 false: no best checkpoint in this epoch
SkipBest ==
  /\ pc = "check_best"
  /\ ~improves(val_loss, best_val_loss)
  /\ pc' = "log"
  /\ UNCHANGED <<files, fs, nproc, err, args, ckpt, config, model, optimizer,
                 scheduler, scaler, writer, epoch, start_epoch, end_epoch,
                 train_losses, val_losses, train_loss, val_loss, best_val_loss,
                 createCalls, stepLog, ownVal, completed, wroteLast, prev, gcnVars,
                 stepVars>>

\* save_checkpoint(..., best_model_path, ...): torch.save returns
SaveBestWrite ==
  /\ pc = "save_best_write"
  /\ fs' = torch_save_done(fs, writer, "best", checkpoint_record)
  /\ stepLog' = Append(stepLog, "save_best")
  /\ pc' = "log"
  /\ UNCHANGED <<files, nproc, err, args, ckpt, config, model, optimizer,
                 scheduler, scaler, writer, epoch, start_epoch, end_epoch,
                 train_losses, val_losses, train_loss, val_loss, best_val_loss,
                 createCalls, ownVal, completed, wroteLast, prev, gcnVars,
                 stepVars>>

\* save_loss_plot and the writer.add_scalar calls, then the next iteration of
\* range(start_epoch, end_epoch)
Log ==
  /\ pc = "log"
  /\ IF epoch + 1 < end_epoch
     THEN epoch' = epoch + 1 /\ pc' = "train_step"
     ELSE epoch' = epoch /\ pc' = "done"
  /\ UNCHANGED <<files, fs, nproc, err, args, ckpt, config, model, optimizer,
                 scheduler, scaler, writer, start_epoch, end_epoch,
                 train_losses, val_losses, train_loss, val_loss, best_val_loss,
                 createCalls, stepLog, ownVal, completed, wroteLast, prev, gcnVars,
                 stepVars>>

\* The process is terminated from outside, at any position: its memory is
\* gone, the files stay as they are
Kill ==
  /\ Running
  /\ pc' = "killed"
  /\ ckpt' = None
  /\ config' = None /\ model' = None /\ optimizer' = None
  /\ scheduler' = None /\ scaler' = None
  /\ epoch' = 0 /\ start_epoch' = 0 /\ end_epoch' = 0
  /\ train_losses' = <<>> /\ val_losses' = <<>>
  /\ train_loss' = 0 /\ val_loss' = 0 /\ best_val_loss' = Inf
  /\ createCalls' = 0 /\ stepLog' = <<>> /\ ownVal' = <<>>
  /\ UNCHANGED <<files, fs, nproc, err, args, writer, completed, wroteLast,
                 prev, gcnVars,
                 stepVars>>

\* ------------------------------------------------------------- specification
GcnIdle ==
  /\ gx = <<>> /\ gy = <<>> /\ edge_index = <<<<>>, <<>>>>
  /\ fwd = None /\ fwdSwap = None

StepIdle ==
  /\ tpc = "idle"
  /\ useScaler = FALSE
  /\ scaleExp = 0 /\ growthTracker = 0
  /\ grad = None /\ trueGrad = None /\ applied = None
  /\ batchLog = <<>>

TrainIdle ==
  /\ fs = <<>>
  /\ nproc = 0
  /\ pc = "idle"
  /\ err = "none"
  /\ args = [config |-> "None", checkpoint |-> None, resume |-> FALSE]
  /\ ckpt = None
  /\ config = None /\ model = None /\ optimizer = None
  /\ scheduler = None /\ scaler = None
  /\ writer = 0
  /\ epoch = 0 /\ start_epoch = 0 /\ end_epoch = 0
  /\ train_losses = <<>> /\ val_losses = <<>>
  /\ train_loss = 0 /\ val_loss = 0 /\ best_val_loss = Inf
  /\ createCalls = 0 /\ stepLog = <<>> /\ ownVal = <<>>
  /\ completed = <<>>
  /\ wroteLast = FALSE
  /\ prev = [exit |-> "idle", dir |-> 0, wrote |-> FALSE]

Init ==
  /\ \E c \in Configs :
       files = [p \in ConfigPaths |->
                  IF p = "config.yaml" THEN c ELSE OtherConfig(c)]
  /\ TrainIdle
  /\ GcnIdle
  /\ StepIdle

Next ==
  \/ Launch
  \/ TrainStep
  \/ SchedulerStep
  \/ TrainEval
  \/ SaveLastOpen
  \/ SaveLastWrite
  \/ SaveBestOpen
  \/ SkipBest
  \/ SaveBestWrite
  \/ Log
  \/ Kill

Spec == Init /\ [][Next]_vars

\* ------------------------------------------------------------- BipartiteLightGCN
\* Floating-point values that occur in the normalisation: 0, +inf, NaN and
\* q^(-1/2) for a positive integer q
FZero == [kind |-> "zero"]
FInf == [kind |-> "inf"]
FNaN == [kind |-> "nan"]
FInvSqrt(q) == [kind |-> "invsqrt", q |-> q]

\* The largest q of a product of two inverse square roots of degrees
MaxQ == (MaxEdges + 1) * (MaxEdges + 1)

\* torch_geometric.utils.degree(index, num_nodes): occurrences of each node
degree(index, n) ==
  [i \in 1..n |-> Cardinality({k \in 1..Len(index) : index[k] = i})]

\* Tensor.pow(-0.5) on a degree: 0 ** -0.5 is +inf
pow_neg_half(d) == IF d = 0 THEN FInf ELSE FInvSqrt(d)

\* (variant: the infinite entries are left in place)
mask_inf_skipped(v) == v

\* deg_inv_sqrt[deg_inv_sqrt == float('inf')] = 0, on one entry
mask_inf(v) == IF v = FInf THEN FZero ELSE v

\* IEEE product of two of the values above
fmul(a, b) ==
  IF a = FNaN \/ b = FNaN THEN FNaN
  ELSE IF (a = FInf /\ b = FZero) \/ (a = FZero /\ b = FInf) THEN FNaN
  ELSE IF a = FInf \/ b = FInf THEN FInf
  ELSE IF a = FZero \/ b = FZero THEN FZero
  ELSE FInvSqrt(a.q * b.q)

\* (variant: the Y-side factor is left out)
edge_norm_x_only(norm_x, norm_y) == norm_x

\* norm = norm_x * norm_y, on one edge
edge_norm(norm_x, norm_y) == fmul(norm_x, norm_y)

\* edge_index.flip(0): the two rows exchanged
flip(ei) == <<ei[2], ei[1]>>

\* A sum of messages: coef[q] is the integer coefficient of q^(-1/2);
\* nonfinite records that an infinite or NaN term was added
ZeroSum == [nonfinite |-> FALSE, coef |-> [q \in 1..MaxQ |-> 0]]

\* message(x_j, norm) = norm * x_j, added to the running sum acc
add_message(acc, x_j, norm) ==
  IF norm = FZero THEN acc
  ELSE IF norm.kind # "invsqrt" THEN [acc EXCEPT !.nonfinite = TRUE]
  ELSE [acc EXCEPT !.coef[norm.q] = @ + x_j]

\* aggr='add' at destination j over the first k edges
RECURSIVE aggregate(_, _, _, _, _)
aggregate(ei, src, norm, j, k) ==
  IF k = 0 THEN ZeroSum
  ELSE LET acc == aggregate(ei, src, norm, j, k - 1)
       IN  IF ei[2][k] = j
           THEN add_message(acc, src[ei[1][k]], norm[k])
           ELSE acc

\* MessagePassing.propagate(ei, size=(Len(src), n_dst), x=(src, dst), norm):
\* messages flow from ei[1] to ei[2]; update returns the aggregate
propagate(ei, n_dst, src, norm) ==
  [j \in 1..n_dst |-> aggregate(ei, src, norm, j, Len(ei[1]))]

\* BipartiteLightGCN.forward(x, y, edge_index)
forward(x, y, ei) ==
  LET from_ == ei[1]
      to_   == ei[2]
      deg_x == degree(from_, Len(x))
      deg_y == degree(to_, Len(y))
      deg_x_inv_sqrt == [i \in 1..Len(x) |-> mask_inf(pow_neg_half(deg_x[i]))]
      deg_y_inv_sqrt == [i \in 1..Len(y) |-> mask_inf(pow_neg_half(deg_y[i]))]
      norm == [k \in 1..Len(from_) |->
                 edge_norm(deg_x_inv_sqrt[from_[k]], deg_y_inv_sqrt[to_[k]])]
  IN  [kind |-> "result",
       deg_x |-> deg_x, deg_y |-> deg_y,
       deg_x_inv_sqrt |-> deg_x_inv_sqrt,
       deg_y_inv_sqrt |-> deg_y_inv_sqrt,
       norm |-> norm,
       x2y |-> propagate(ei, Len(y), x, norm),
       y2x |-> propagate(flip(ei), Len(x), y, norm)]

\* forward(x, y, edge_index) is called
Forward ==
  /\ fwd = None
  /\ fwd' = forward(gx, gy, edge_index)
  /\ UNCHANGED <<trainVars, stepVars, gx, gy, edge_index, fwdSwap>>

\* forward(y, x, edge_index.flip(0)) is called next
ForwardSwapped ==
  /\ fwd # None
  /\ fwdSwap = None
  /\ fwdSwap' = forward(gy, gx, flip(edge_index))
  /\ UNCHANGED <<trainVars, stepVars, gx, gy, edge_index, fwd>>

InitGCN ==
  /\ files = [p \in ConfigPaths |->
                [epochs |-> 1, hasScheduler |-> TRUE, amp |-> FALSE]]
  /\ TrainIdle
  /\ \E nx \in 1..MaxN, ny \in 1..MaxN, ne \in 0..MaxEdges :
       /\ gx \in [1..nx -> 1..MaxFeat]
       /\ gy \in [1..ny -> 1..MaxFeat]
       /\ \E f \in [1..ne -> 1..nx], t \in [1..ne -> 1..ny] :
            edge_index = <<f, t>>
  /\ fwd = None
  /\ fwdSwap = None
  /\ StepIdle

NextGCN ==
  \/ Forward
  \/ ForwardSwapped

SpecGCN == InitGCN /\ [][NextGCN]_vars

\* ------------------------------------------------------------- train_step
MaxNorm == 10            \* clip_grad_norm_(..., max_norm=10.0)
InitScaleExp == 16       \* torch.amp.GradScaler(): init_scale = 2.0 ** 16
GrowthInterval == 2000   \* torch.amp.GradScaler(): growth_interval = 2000

\* Norms are dyadic numbers num * 2^exp, or not finite (inf or NaN)
RECURSIVE Pow2(_)
Pow2(k) == IF k <= 0 THEN 1 ELSE 2 * Pow2(k - 1)
Fin(n, e) == [kind |-> "fin", num |-> n, exp |-> IF n = 0 THEN 0 ELSE e]
NonFinite == [kind |-> "nonfinite"]
Skipped == [kind |-> "skipped"]          \* optimizer.step() was not called

\* Pre-clip norms of the gradient of the loss: zero, below, at, just above and
\* far above the ceiling
GradNorms == {0, 6, 10, 12, 50}

\* total_norm > max_norm
ExceedsMaxNorm(v) ==
  /\ v.kind = "fin"
  /\ IF v.exp >= 0 THEN v.num * Pow2(v.exp) > MaxNorm
                   ELSE v.num > MaxNorm * Pow2(0 - v.exp)

\* torch.nn.utils.clip_grad_norm_(parameters, max_norm=10.0) on the norm v of
\* .grad: scaled down to the ceiling when above it (the 1e-6 in the
\* coefficient is left out); a non-finite norm gives non-finite gradients
clip_grad_norm_(v) ==
  IF v.kind # "fin" THEN NonFinite
  ELSE IF ExceedsMaxNorm(v) THEN Fin(MaxNorm, 0)
  ELSE v

\* scaler.scale(loss_items).backward(): the gradient of the loss times the scale
scaled_backward(g, e) == IF g.kind = "fin" THEN Fin(g.num, g.exp + e) ELSE g

\* GradScaler.unscale_, called by scaler.step: .grad times 1 / scale
unscale_(v, e) == IF v.kind = "fin" THEN Fin(v.num, v.exp - e) ELSE v

\* optimizer.zero_grad(), line 90
ZeroGrad ==
  /\ tpc = "zero_grad"
  /\ grad' = Fin(0, 0)
  /\ trueGrad' = None
  /\ applied' = None
  /\ batchLog' = <<"zero_grad">>
  /\ tpc' = "backward"
  /\ UNCHANGED <<trainVars, gcnVars, useScaler, scaleExp, growthTracker>>

\* forward under autocast, then loss_items.backward() (line 105) or
\* scaler.scale(loss_items).backward() (line 100); with the scaler the
\* reduced-precision backward pass may overflow
Backward ==
  /\ tpc = "backward"
  /\ \E g \in {Fin(n, 0) : n \in GradNorms} \cup {NonFinite} :
       /\ trueGrad' = g
       /\ IF useScaler
          THEN \E overflow \in BOOLEAN :
                 grad' = IF overflow THEN NonFinite
                         ELSE scaled_backward(g, scaleExp)
          ELSE grad' = g
  /\ batchLog' = Append(batchLog, "backward")
  /\ tpc' = "clip"
  /\ UNCHANGED <<trainVars, gcnVars, useScaler, scaleExp, growthTracker, applied>>

\* torch.nn.utils.clip_grad_norm_(model.parameters(), max_norm=10.0),
\* lines 101 and 106
Clip ==
  /\ tpc = "clip"
  /\ grad' = clip_grad_norm_(grad)
  /\ batchLog' = Append(batchLog, "clip_grad_norm_")
  /\ tpc' = "step"
  /\ UNCHANGED <<trainVars, gcnVars, useScaler, scaleExp, growthTracker,
                 trueGrad, applied>>

\* optimizer.step(), line 107
OptimizerStep ==
  /\ tpc = "step"
  /\ ~useScaler
  /\ applied' = grad
  /\ batchLog' = Append(batchLog, "step")
  /\ tpc' = "zero_grad"
  /\ UNCHANGED <<trainVars, gcnVars, useScaler, scaleExp, growthTracker, grad,
                 trueGrad>>

\* scaler.step(optimizer), line 102: unscales .grad and calls optimizer.step()
\* unless an inf or NaN was found
ScalerStep ==
  /\ tpc = "step"
  /\ useScaler
  /\ grad' = unscale_(grad, scaleExp)
  /\ applied' = IF grad'.kind = "fin" THEN grad' ELSE Skipped
  /\ batchLog' = Append(batchLog, "step")
  /\ tpc' = "update"
  /\ UNCHANGED <<trainVars, gcnVars, useScaler, scaleExp, growthTracker, trueGrad>>

\* scaler.update(), line 103: the scale is halved after an inf or NaN and
\* doubled after GrowthInterval steps without one
ScalerUpdate ==
  /\ tpc = "update"
  /\ IF grad.kind # "fin"
     THEN /\ scaleExp' = IF scaleExp > 0 - MaxBelowOne THEN scaleExp - 1
                         ELSE scaleExp
          /\ growthTracker' = 0
     ELSE IF growthTracker + 1 = GrowthInterval
          THEN /\ scaleExp' = IF scaleExp < MaxScaleExp THEN scaleExp + 1
                              ELSE scaleExp
               /\ growthTracker' = 0
          ELSE /\ scaleExp' = scaleExp
               /\ growthTracker' = growthTracker + 1
  /\ batchLog' = Append(batchLog, "update")
  /\ tpc' = "zero_grad"
  /\ UNCHANGED <<trainVars, gcnVars, useScaler, grad, trueGrad, applied>>

InitStep ==
  /\ files = [p \in ConfigPaths |->
                [epochs |-> 1, hasScheduler |-> TRUE, amp |-> FALSE]]
  /\ TrainIdle
  /\ GcnIdle
  /\ tpc = "zero_grad"
  /\ useScaler \in BOOLEAN
  /\ scaleExp = IF useScaler THEN InitScaleExp ELSE 0
  /\ growthTracker = 0
  /\ grad = None /\ trueGrad = None /\ applied = None
  /\ batchLog = <<>>

NextStep ==
  \/ ZeroGrad
  \/ Backward
  \/ Clip
  \/ OptimizerStep
  \/ ScalerStep
  \/ ScalerUpdate

SpecStep == InitStep /\ [][NextStep]_vars

\* ------------------------------------------------------------- properties
Alive == pc \notin {"idle", "killed"}
EpochsUpTo(n) == [i \in 1..n |-> i - 1]

\* C1: a process started with a checkpoint and resume=true starts at the
\* checkpoint's epoch + 1 and trains with the stored optimizer, scheduler and
\* scaler; create_optimizer_scheduler_scaler is not called.
C1_ResumeContinues ==
  (Alive /\ args.resume /\ ckpt # None) =>
     /\ start_epoch = ckpt.epoch + 1
     /\ createCalls = 0
     /\ (pc = "train_step" /\ ownVal = <<>>) => epoch = ckpt.epoch + 1
     /\ Running => epoch = start_epoch + Len(ownVal)
                           - (IF pc \in {"train_step", "scheduler_step", "train_eval"}
                              THEN 0 ELSE 1)
     /\ optimizer.gen = ckpt.optimizer.gen
     /\ optimizer.steps - ckpt.optimizer.steps = model.trained - ckpt.model.trained
     /\ scheduler.kind = "scheduler"
     /\ scheduler.gen = ckpt.scheduler.gen
     /\ scaler = ckpt.scaler

C1_Witness ==
  /\ args.resume /\ ckpt # None
  /\ pc = "scheduler_step"
  /\ epoch = ckpt.epoch + 1

\* C2 (as claimed): a run killed after it has written last.pt and then resumed
\* from that last.pt ends normally, each epoch 0..end_epoch-1 having been
\* completed exactly once in increasing order, and the final last.pt holds
\* end_epoch train losses and end_epoch validation losses.
C2_ResumeCompletesRun ==
  ( /\ pc \in {"done", "error"}
    /\ args.resume /\ args.checkpoint # None
    /\ args.checkpoint.file = "last"
    /\ prev.exit = "killed" /\ prev.wrote
    /\ prev.dir = args.checkpoint.dir ) =>
     LET d == args.checkpoint.dir
     IN  /\ pc = "done"
         /\ IsCkpt(fs[d].last)
         /\ completed[d] = EpochsUpTo(fs[d].last.end_epoch)
         /\ Len(fs[d].last.train_losses) = fs[d].last.end_epoch
         /\ Len(fs[d].last.val_losses) = fs[d].last.end_epoch

\* C3 (as claimed): whenever a process has been terminated, every last.pt is
\* absent or one complete checkpoint record.
C3_LastNeverPartial ==
  pc = "killed" =>
     \A d \in 1..Len(fs) : fs[d].last = NoFile \/ IsCkpt(fs[d].last)

C5_ResumeNeedsCheckpoint ==
  (Alive /\ args.resume /\ args.checkpoint = None) =>
     /\ pc = "error" /\ err = "ValueError"
     /\ stepLog = <<>> /\ ownVal = <<>>
     /\ model.trained = 0
     /\ ~wroteLast
     /\ fs[writer] = EmptyDir

C5_Witness ==
  /\ args.resume /\ args.checkpoint = None
  /\ pc = "error" /\ err = "ValueError"
  /\ Len(fs) >= 2

\* C6: a process started with a checkpoint and resume=false keeps the
\* checkpoint's model and configuration (hence dataset), creates a new
\* optimizer, scheduler and scaler from the checkpoint's config, starts at
\* epoch 0 with end_epoch = config train.epochs and empty loss histories, and
\* writes into a new directory, leaving the checkpoint's directory alone.
C6_ReinitFromCheckpoint ==
  (Alive /\ ~args.resume /\ ckpt # None) =>
     LET cr == create_optimizer_scheduler_scaler(ckpt.config, nproc)
     IN  /\ config = ckpt.config
         /\ model.gen = ckpt.model.gen
         /\ model.trained = ckpt.model.trained + optimizer.steps
         /\ createCalls = 1
         /\ optimizer.gen = nproc
         /\ scheduler.gen = nproc
         /\ scaler = cr.scaler
         /\ start_epoch = 0
         /\ end_epoch = ckpt.config.epochs
         /\ Len(train_losses) = Len(ownVal)
         /\ val_losses = ownVal
         /\ writer = Len(fs)
         /\ writer # ckpt.log_dir
         /\ fs[args.checkpoint.dir][args.checkpoint.file] = ckpt
         /\ (pc = "train_step" /\ ownVal = <<>>) =>
               /\ epoch = 0
               /\ model = ckpt.model
               /\ optimizer = cr.optimizer
               /\ scheduler = cr.scheduler
               /\ fs[writer] = EmptyDir

C6_Witness ==
  /\ ~args.resume /\ ckpt # None
  /\ ckpt.epoch >= 1
  /\ pc = "log"
  /\ epoch = 0

\* C7 (as claimed): a run without a checkpoint loads its configuration from the
\* path given by --config, and from config.yaml only when no path is given.
C7_ConfigFromGivenPath ==
  (Alive /\ args.checkpoint = None /\ config # None) =>
     config = load_config(IF args.config = "None" THEN "config.yaml"
                          ELSE args.config)

\* C8 (as claimed): with a configuration that has no train.scheduler entry no
\* scheduler is created and the loop carries every epoch to the end epoch
\* without raising.
C8_SchedulerOptional ==
  ( /\ pc \in {"done", "error"}
    /\ config # None /\ ~config.hasScheduler
    /\ createCalls > 0
    /\ err # "ValueError" ) =>
     /\ scheduler = None
     /\ pc = "done"
     /\ completed[writer] = EpochsUpTo(end_epoch)

\* C9: every inverse-square-root degree value and every per-edge normalisation
\* factor forward computes is finite and non-negative, and a node of degree
\* zero gets the value 0.
FiniteNonNeg(v) == v = FZero \/ (v.kind = "invsqrt" /\ v.q >= 1)

C9_NormFiniteNonNegative ==
  fwd # None =>
     /\ \A i \in 1..Len(gx) :
          /\ FiniteNonNeg(fwd.deg_x_inv_sqrt[i])
          /\ fwd.deg_x[i] = 0 => fwd.deg_x_inv_sqrt[i] = FZero
     /\ \A i \in 1..Len(gy) :
          /\ FiniteNonNeg(fwd.deg_y_inv_sqrt[i])
          /\ fwd.deg_y[i] = 0 => fwd.deg_y_inv_sqrt[i] = FZero
     /\ \A k \in 1..Len(fwd.norm) : FiniteNonNeg(fwd.norm[k])

C9_Witness ==
  /\ fwd # None
  /\ Len(fwd.norm) >= 1
  /\ \E i \in 1..Len(gx) : fwd.deg_x[i] = 0
  /\ \E i \in 1..Len(gy) : fwd.deg_y[i] = 0

\* C10: the y2x output of forward(x, y, edge_index) equals the x2y output of
\* forward(y, x, edge_index.flip(0)), computed with the same per-edge
\* normalisation values.
C10_ReversePassSymmetric ==
  (fwd # None /\ fwdSwap # None) =>
     /\ fwd.y2x = fwdSwap.x2y
     /\ fwd.norm = fwdSwap.norm

C10_Witness ==
  /\ fwd # None /\ fwdSwap # None
  /\ Len(gx) # Len(gy)
  /\ Len(fwd.norm) >= 2
  /\ \E k \in 1..Len(fwd.norm) :
       gx[edge_index[1][k]] # gy[edge_index[2][k]]
  /\ \E i \in 1..Len(gx) : fwd.deg_x[i] >= 2

\* C12 (as claimed): whenever best.pt exists in a run directory, the val_loss
\* it stores is the minimum of the val_losses history it stores, also after a
\* run resumed with resume=true has written into the directory.
SeqMin(q) == CHOOSE m \in {q[i] : i \in 1..Len(q)} : \A i \in 1..Len(q) : m <= q[i]

C12_BestIsMinimum ==
  \A d \in 1..Len(fs) :
     IsCkpt(fs[d].best) => fs[d].best.val_loss = SeqMin(fs[d].best.val_losses)

\* C11 (as claimed): in every training step, with and without the scaler, the
\* gradient is clipped after the backward pass and before the optimizer step,
\* and the norm of the gradient the optimizer step applies does not exceed
\* 10.0.
C11_AppliedNormWithinCeiling ==
  applied # None =>
     /\ batchLog[1] = "zero_grad" /\ batchLog[2] = "backward"
     /\ batchLog[3] = "clip_grad_norm_" /\ batchLog[4] = "step"
     /\ ~ExceedsMaxNorm(applied)

====
